---- MODULE Spec2Model ----
(***************************************************************************)
(* The shared research store (ResearchDataStore) and the data access       *)
(* adapter (FastMCPTool / AdvancedMCPTool) of crewai_mcp_course.           *)
(*                                                                         *)
(* Python strings are TLA+ strings; Python values are tagged records       *)
(* (PyNone, PyStr, PyInt, PyList, PyDict); a Python dict is the sequence   *)
(* of its <<key, value>> pairs in insertion order.  The string returned    *)
(* by json.dumps is a str value that carries the object it serialises and  *)
(* the formatting options it was written with.                             *)
(***************************************************************************)
EXTENDS Integers, Sequences, FiniteSets, TLC

VARIABLES
    now,        \* the wall clock read by datetime.now(), in minutes
    stores,     \* the ResearchDataStore objects, by identity
    ctor,       \* the arguments the caller constructed the tool with
    tool,       \* the AdvancedMCPTool instance (FastMCPTool fields + data_store)
    call,       \* the _run call the caller is about to make, if any
    last        \* the most recent call: operation, arguments, outcome

vars == <<now, stores, ctor, tool, call, last>>

----------------------------------------------------------------------------
(* Bounds of the model. *)

\* The clock advances at most this many minutes.
MaxTime == 2

----------------------------------------------------------------------------
(* Python strings. *)

UpperLetters == "ABCDEFGHIJKLMNOPQRSTUVWXYZ"
LowerLetters == "abcdefghijklmnopqrstuvwxyz"

CharAt(s, i) == SubSeq(s, i, i)

\* The letters a case mapping changes, each with its image.
ToLower ==
    [c \in {CharAt(UpperLetters, i) : i \in 1..Len(UpperLetters)} |->
        CharAt(LowerLetters,
               CHOOSE i \in 1..Len(UpperLetters) : CharAt(UpperLetters, i) = c)]

ToUpper ==
    [c \in {CharAt(LowerLetters, i) : i \in 1..Len(LowerLetters)} |->
        CharAt(UpperLetters,
               CHOOSE i \in 1..Len(LowerLetters) : CharAt(LowerLetters, i) = c)]

LowerChar(c) == IF c \in DOMAIN ToLower THEN ToLower[c] ELSE c

UpperChar(c) == IF c \in DOMAIN ToUpper THEN ToUpper[c] ELSE c

RECURSIVE str_lower(_)
\* str.lower()
str_lower(s) ==
    IF s = "" THEN ""
    ELSE LowerChar(CharAt(s, 1)) \o str_lower(SubSeq(s, 2, Len(s)))

RECURSIVE str_upper(_)
\* str.upper()
str_upper(s) ==
    IF s = "" THEN ""
    ELSE UpperChar(CharAt(s, 1)) \o str_upper(SubSeq(s, 2, Len(s)))

RECURSIVE str_lstrip(_, _)
\* str.lstrip(c) for a one-character c
str_lstrip(s, c) ==
    IF s # "" /\ CharAt(s, 1) = c
    THEN str_lstrip(SubSeq(s, 2, Len(s)), c)
    ELSE s

RECURSIVE str_rstrip(_, _)
\* str.rstrip(c) for a one-character c
str_rstrip(s, c) ==
    IF s # "" /\ CharAt(s, Len(s)) = c
    THEN str_rstrip(SubSeq(s, 1, Len(s) - 1), c)
    ELSE s

\* sub in s
str_contains(sub, s) ==
    \E i \in 1..(Len(s) - Len(sub) + 1) : SubSeq(s, i, i + Len(sub) - 1) = sub

----------------------------------------------------------------------------
(* Python values. *)

PyNone == [kind |-> "NoneType"]
PyStr(s) == [kind |-> "str", s |-> s]
PyInt(n) == [kind |-> "int", n |-> n]
PyList(xs) == [kind |-> "list", items |-> xs]
PyDict(ps) == [kind |-> "dict", pairs |-> ps]
\* An instance of a class json does not know, such as datetime.
PyObject(cls) == [kind |-> "object", cls |-> cls]

\* bool(v): None, "", 0, [] and {} are false; an object of a class without
\* __bool__ and __len__ is true.
truthy(v) ==
    CASE v.kind = "NoneType" -> FALSE
      [] v.kind = "str" -> (IF "s" \in DOMAIN v THEN v.s # "" ELSE TRUE)
      [] v.kind = "int" -> v.n # 0
      [] v.kind = "list" -> v.items # <<>>
      [] v.kind = "dict" -> v.pairs # <<>>
      [] v.kind = "object" -> TRUE

\* A dict as the sequence of its <<key, value>> pairs, in insertion order.
dict_keys(d) == [i \in 1..Len(d) |-> d[i][1]]

dict_has(d, k) == \E i \in 1..Len(d) : d[i][1] = k

dict_index(d, k) == CHOOSE i \in 1..Len(d) : d[i][1] = k

\* d.get(k, default)
dict_get(d, k, default) ==
    IF dict_has(d, k) THEN d[dict_index(d, k)][2] ELSE default

\* d[k] = v: replaces the value in place, or appends a new pair.
dict_set(d, k, v) ==
    IF dict_has(d, k)
    THEN [d EXCEPT ![dict_index(d, k)] = <<k, v>>]
    ELSE Append(d, <<k, v>>)

RECURSIVE json_serializable(_)
\* Whether json.dumps(obj) finds only values the default encoder knows;
\* if not it raises TypeError.
json_serializable(obj) ==
    CASE obj.kind = "list" ->
            \A i \in 1..Len(obj.items) : json_serializable(obj.items[i])
      [] obj.kind = "dict" ->
            \A i \in 1..Len(obj.pairs) : json_serializable(obj.pairs[i][2])
      [] obj.kind = "object" -> FALSE
      [] OTHER -> TRUE

\* json.dumps(obj, indent=..., ensure_ascii=...): a str holding obj's serialisation.
json_dumps(obj, indent, ensure_ascii) ==
    [kind |-> "str", json |-> obj, indent |-> indent, ensure_ascii |-> ensure_ascii]

----------------------------------------------------------------------------
(* lesson3_advanced_patterns.py: names bound at module level. *)

\* The module with "from datetime import datetime, timedelta".
ModuleGlobals_with_timedelta ==
    {"os", "sys", "json", "time", "Dict", "Any", "List", "Optional",
     "datetime", "timedelta", "load_dotenv", "Agent", "Task", "Crew", "Process",
     "BaseTool", "BaseModel", "Field", "FastMCPTool", "MCPDataRequest",
     "ResearchDataStore", "AdvancedMCPTool", "AdvancedCrewAIWorkflows", "main"}

\* What the import statements and class definitions of the module bind.
ModuleGlobals ==
    {"os", "sys", "json", "time", "Dict", "Any", "List", "Optional",
     "datetime", "load_dotenv", "Agent", "Task", "Crew", "Process",
     "BaseTool", "BaseModel", "Field", "FastMCPTool", "MCPDataRequest",
     "ResearchDataStore", "AdvancedMCPTool", "AdvancedCrewAIWorkflows", "main"}

\* The outcome of a call: the exception class raised ("" for none) and the
\* value returned.
Returned(v) == [raised |-> "", ret |-> v]
Raised(exc) == [raised |-> exc, ret |-> PyNone]

----------------------------------------------------------------------------
(* class ResearchDataStore *)

\* __init__
ResearchDataStore_init == [data |-> <<>>, timestamps |-> <<>>]

\* store with setdefault in place of the assignment to self.data[key].
store_keeps_first_value(self, key, value, t) ==
    [data       |-> IF dict_has(self.data, key) THEN self.data
                    ELSE dict_set(self.data, key, value),
     timestamps |-> dict_set(self.timestamps, key, t)]

\* store that records the time of a key's first write only.
store_keeps_first_timestamp(self, key, value, t) ==
    [data       |-> dict_set(self.data, key, value),
     timestamps |-> IF dict_has(self.timestamps, key) THEN self.timestamps
                    ELSE dict_set(self.timestamps, key, t)]

\* store with the dicts rebound to one-entry dicts in place of item assignment.
store_rebinds_dicts(self, key, value, t) ==
    [data       |-> << <<key, value>> >>,
     timestamps |-> << <<key, t>> >>]

\* store with the old entry popped before the new one is assigned, so
\* that a key written again moves to the end.
store_moves_key_to_end(self, key, value, t) ==
    [data       |-> Append(SelectSeq(self.data, LAMBDA pair : pair[1] # key),
                           <<key, value>>),
     timestamps |-> Append(SelectSeq(self.timestamps, LAMBDA pair : pair[1] # key),
                           <<key, t>>)]

\* store with the timestamp recorded under "if value:".
store_stamps_nonempty_values(self, key, value, t) ==
    [data       |-> dict_set(self.data, key, value),
     timestamps |-> IF truthy(value) THEN dict_set(self.timestamps, key, t)
                    ELSE self.timestamps]

\* store(key, value), called when datetime.now() reads t
store(self, key, value, t) ==
    [data       |-> dict_set(self.data, key, value),
     timestamps |-> dict_set(self.timestamps, key, t)]

\* retrieve with self.data[key] in place of self.data.get(key).
retrieve_by_subscript(self, key) ==
    IF dict_has(self.data, key)
    THEN Returned(dict_get(self.data, key, PyNone))
    ELSE Raised("KeyError")

\* retrieve(key)
retrieve(self, key) == Returned(dict_get(self.data, key, PyNone))

\* get_all_keys()
get_all_keys(self) ==
    PyList([i \in 1..Len(self.data) |-> PyStr(dict_keys(self.data)[i])])

RECURSIVE recent_loop(_, _, _, _)
\* The for loop of get_recent over self.timestamps.items(), from item i on.
recent_loop(self, cutoff_time, i, recent_data) ==
    IF i > Len(self.timestamps) THEN recent_data
    ELSE LET key == self.timestamps[i][1]
             timestamp == self.timestamps[i][2]
         IN  recent_loop(self, cutoff_time, i + 1,
                 IF timestamp > cutoff_time
                 THEN dict_set(recent_data, key, dict_get(self.data, key, PyNone))
                 ELSE recent_data)

\* get_recent(minutes), called when datetime.now() reads t.  The name
\* timedelta is looked up when the cutoff is computed.
get_recent(self, minutes, t) ==
    IF "timedelta" \notin ModuleGlobals
    THEN Raised("NameError")
    ELSE Returned(PyDict(recent_loop(self, t - minutes, 1, <<>>)))

----------------------------------------------------------------------------
(* lesson2_mcp_integration.py: class FastMCPTool *)

\* Characters outside ASCII are written by name.
CrossMark == "(cross mark)"
CheckMark == "(check mark)"
ChartMark == "(bar chart)"
DegreeSign == "(degree)"

\* The base URL the simulation test of _run compares with.
DefaultBaseUrl == "http://localhost:8000"

\* timeout= of session.request, in seconds.
RequestTimeout == 30

\* The headers of a new requests.Session.
SessionDefaultHeaders ==
    << <<"User-Agent", PyStr("python-requests")>>,
       <<"Accept-Encoding", PyStr("gzip, deflate")>>,
       <<"Accept", PyStr("*/*")>>,
       <<"Connection", PyStr("keep-alive")>> >>

RECURSIVE dict_update(_, _)
\* d.update(other)
dict_update(d, other) ==
    IF other = <<>> THEN d
    ELSE dict_update(dict_set(d, other[1][1], other[1][2]), Tail(other))

\* __init__ with base_url stored as it is given.
FastMCPTool_init_keeps_base_url(base_url, api_key) ==
    [base_url |-> base_url,
     api_key  |-> api_key,
     headers  |->
        IF truthy(api_key)
        THEN dict_update(SessionDefaultHeaders,
                 << <<"Authorization", PyStr("Bearer " \o api_key.s)>>,
                    <<"Content-Type", PyStr("application/json")>> >>)
        ELSE dict_update(SessionDefaultHeaders,
                 << <<"Content-Type", PyStr("application/json")>> >>)]

\* __init__ with "if self.api_key is not None" as its test.
FastMCPTool_init_tests_for_none(base_url, api_key) ==
    [base_url |-> str_rstrip(base_url, "/"),
     api_key  |-> api_key,
     headers  |->
        IF api_key # PyNone
        THEN dict_update(SessionDefaultHeaders,
                 << <<"Authorization", PyStr("Bearer " \o api_key.s)>>,
                    <<"Content-Type", PyStr("application/json")>> >>)
        ELSE dict_update(SessionDefaultHeaders,
                 << <<"Content-Type", PyStr("application/json")>> >>)]

\* FastMCPTool.__init__(base_url, api_key)
FastMCPTool_init(base_url, api_key) ==
    [base_url |-> str_rstrip(base_url, "/"),
     api_key  |-> api_key,
     headers  |->
        IF truthy(api_key)
        THEN dict_update(SessionDefaultHeaders,
                 << <<"Authorization", PyStr("Bearer " \o api_key.s)>>,
                    <<"Content-Type", PyStr("application/json")>> >>)
        ELSE dict_update(SessionDefaultHeaders,
                 << <<"Content-Type", PyStr("application/json")>> >>)]

\* value.get(key, default) if value else default
get_if(value, key, default) ==
    IF truthy(value) THEN dict_get(value.pairs, key, default) ELSE default

\* The weather payload with the location hard-coded.
WeatherPayload_fixed_location(params) ==
    PyDict(<< <<"location", PyStr("San Francisco, CA")>>,
              <<"temperature", PyStr("72" \o DegreeSign \o "F")>>,
              <<"conditions", PyStr("Partly cloudy")>>,
              <<"humidity", PyStr("65%")>>,
              <<"wind_speed", PyStr("8 mph")>>,
              <<"source", PyStr("MCP Weather Service")>> >>)

WeatherPayload(params) ==
    PyDict(<< <<"location", get_if(params, "location", PyStr("San Francisco, CA"))>>,
              <<"temperature", PyStr("72" \o DegreeSign \o "F")>>,
              <<"conditions", PyStr("Partly cloudy")>>,
              <<"humidity", PyStr("65%")>>,
              <<"wind_speed", PyStr("8 mph")>>,
              <<"source", PyStr("MCP Weather Service")>> >>)

NewsPayload ==
    PyDict(<< <<"articles", PyList(<<
                 PyDict(<< <<"title", PyStr("AI Agents Revolutionize Healthcare Diagnostics")>>,
                           <<"summary", PyStr("New AI agents are helping doctors diagnose diseases with 95% accuracy.")>>,
                           <<"source", PyStr("Tech News Today")>>,
                           <<"timestamp", PyStr("2024-01-15T10:30:00Z")>> >>),
                 PyDict(<< <<"title", PyStr("Multi-Agent Systems Transform Business Operations")>>,
                           <<"summary", PyStr("Companies are adopting multi-agent systems to automate complex workflows.")>>,
                           <<"source", PyStr("Business Weekly")>>,
                           <<"timestamp", PyStr("2024-01-14T15:20:00Z")>> >>) >>)>>,
              <<"source", PyStr("MCP News Aggregator")>> >>)

ResearchPayload(params) ==
    PyDict(<< <<"query", get_if(params, "query", PyStr("AI agents"))>>,
              <<"results", PyList(<<
                 PyDict(<< <<"title", PyStr("The Rise of AI Agents in Modern Computing")>>,
                           <<"author", PyStr("Dr. Sarah Chen")>>,
                           <<"year", PyInt(2024)>>,
                           <<"summary", PyStr("Comprehensive analysis of AI agent architectures and applications.")>> >>),
                 PyDict(<< <<"title", PyStr("Multi-Agent Coordination Strategies")>>,
                           <<"author", PyStr("Prof. Michael Rodriguez")>>,
                           <<"year", PyInt(2023)>>,
                           <<"summary", PyStr("Advanced techniques for coordinating multiple AI agents.")>> >>) >>)>>,
              <<"source", PyStr("MCP Research Database")>> >>)

\* The health payload reading symptoms from the wrong key of the body.
HealthPayload_wrong_key(data) ==
    PyDict(<< <<"symptoms", get_if(data, "symptom",
                                PyList(<<PyStr("headache"), PyStr("fatigue")>>))>>,
              <<"possible_conditions", PyList(<<PyStr("Tension headache"),
                                               PyStr("Migraine"),
                                               PyStr("Dehydration")>>)>>,
              <<"recommendations", PyList(<<PyStr("Stay hydrated"),
                                           PyStr("Get adequate rest"),
                                           PyStr("Consult a healthcare provider if symptoms persist")>>)>>,
              <<"source", PyStr("MCP Health Assistant")>>,
              <<"disclaimer", PyStr("This is not medical advice. Please consult a healthcare professional.")>> >>)

HealthPayload(data) ==
    PyDict(<< <<"symptoms", get_if(data, "symptoms",
                                PyList(<<PyStr("headache"), PyStr("fatigue")>>))>>,
              <<"possible_conditions", PyList(<<PyStr("Tension headache"),
                                               PyStr("Migraine"),
                                               PyStr("Dehydration")>>)>>,
              <<"recommendations", PyList(<<PyStr("Stay hydrated"),
                                           PyStr("Get adequate rest"),
                                           PyStr("Consult a healthcare provider if symptoms persist")>>)>>,
              <<"source", PyStr("MCP Health Assistant")>>,
              <<"disclaimer", PyStr("This is not medical advice. Please consult a healthcare professional.")>> >>)

DefaultPayload(endpoint, method) ==
    PyDict(<< <<"message", PyStr("MCP server received " \o method
                                  \o " request to " \o endpoint)>>,
              <<"timestamp", PyStr("2024-01-15T12:00:00Z")>>,
              <<"status", PyStr("success")>>,
              <<"data_source", PyStr("MCP Demo Server")>> >>)

\* _simulate_mcp_response with the health test moved before the research test.
simulate_health_before_research(endpoint, method, params, data) ==
    LET endpoint_lower == str_lower(endpoint)
    IN  IF str_contains("weather", endpoint_lower) \/ str_contains("forecast", endpoint_lower)
        THEN json_dumps(WeatherPayload(params), PyInt(2), TRUE)
        ELSE IF str_contains("news", endpoint_lower) \/ str_contains("headlines", endpoint_lower)
        THEN json_dumps(NewsPayload, PyInt(2), TRUE)
        ELSE IF str_contains("health", endpoint_lower) \/ str_contains("medical", endpoint_lower)
        THEN json_dumps(HealthPayload(data), PyInt(2), TRUE)
        ELSE IF str_contains("research", endpoint_lower) \/ str_contains("data", endpoint_lower)
        THEN json_dumps(ResearchPayload(params), PyInt(2), TRUE)
        ELSE json_dumps(DefaultPayload(endpoint, method), PyInt(2), TRUE)

\* _simulate_mcp_response(endpoint, method, params, data)
simulate_mcp_response(endpoint, method, params, data) ==
    LET endpoint_lower == str_lower(endpoint)
    IN  IF str_contains("weather", endpoint_lower) \/ str_contains("forecast", endpoint_lower)
        THEN json_dumps(WeatherPayload(params), PyInt(2), TRUE)
        ELSE IF str_contains("news", endpoint_lower) \/ str_contains("headlines", endpoint_lower)
        THEN json_dumps(NewsPayload, PyInt(2), TRUE)
        ELSE IF str_contains("research", endpoint_lower) \/ str_contains("data", endpoint_lower)
        THEN json_dumps(ResearchPayload(params), PyInt(2), TRUE)
        ELSE IF str_contains("health", endpoint_lower) \/ str_contains("medical", endpoint_lower)
        THEN json_dumps(HealthPayload(data), PyInt(2), TRUE)
        ELSE json_dumps(DefaultPayload(endpoint, method), PyInt(2), TRUE)

\* requests.exceptions: the classes that derive from RequestException.
IsRequestException(exc) ==
    exc \in {"ConnectionError", "Timeout", "HTTPError", "JSONDecodeError"}

\* What session.request and the response do, as the network decides it:
\* the call raises, or returns a response with a status and a body that
\* response.json() parses or rejects (with JSONDecodeError, or with
\* ValueError in releases of requests before 2.27).
HttpRaises(exc, msg) == [kind |-> "raises", exc |-> exc, msg |-> msg]
HttpResponse(status, body) == [kind |-> "response", status |-> status, body |-> body]
JsonBody(v) == [valid |-> TRUE, value |-> v]
NotJsonBody(exc) == [valid |-> FALSE, exc |-> exc]

\* response.raise_for_status(): HTTPError for 4xx and 5xx.
raise_for_status(status) == 400 <= status /\ status < 600

\* The test with the endpoint lower-cased first.
use_simulation_any_case(self, endpoint) ==
    str_contains("demo", str_lower(endpoint)) \/ self.base_url = DefaultBaseUrl

\* The test of _run that selects the simulation.
use_simulation(self, endpoint) ==
    str_contains("demo", endpoint) \/ self.base_url = DefaultBaseUrl

\* The try block with the request sent before the simulation is tested for.
run_try_request_first(self, endpoint, method, params, data, http) ==
    LET url == self.base_url \o "/" \o str_lstrip(endpoint, "/")
        request == [method  |-> str_upper(method),
                    url     |-> url,
                    params  |-> params,
                    json    |-> data,
                    timeout |-> RequestTimeout,
                    headers |-> self.headers]
    IN  IF http.kind = "raises"
        THEN [raised |-> http.exc, msg |-> http.msg, requests |-> <<request>>,
              ret |-> PyNone]
        ELSE IF use_simulation(self, endpoint)
        THEN [raised |-> "", msg |-> "", requests |-> <<request>>,
              ret |-> simulate_mcp_response(endpoint, method, params, data)]
        ELSE IF raise_for_status(http.status)
        THEN [raised |-> "HTTPError", msg |-> "Error for url: " \o url,
              requests |-> <<request>>, ret |-> PyNone]
        ELSE IF ~http.body.valid
        THEN [raised |-> http.body.exc, msg |-> "Expecting value",
              requests |-> <<request>>, ret |-> PyNone]
        ELSE [raised |-> "", msg |-> "", requests |-> <<request>>,
              ret |-> json_dumps(http.body.value, PyInt(2), FALSE)]

\* The try block with the URL built from the endpoint as it is given.
run_try_keeps_leading_separator(self, endpoint, method, params, data, http) ==
    LET url == self.base_url \o "/" \o endpoint
        request == [method  |-> str_upper(method),
                    url     |-> url,
                    params  |-> params,
                    json    |-> data,
                    timeout |-> RequestTimeout,
                    headers |-> self.headers]
    IN  IF use_simulation(self, endpoint)
        THEN [raised |-> "", msg |-> "", requests |-> <<>>,
              ret |-> simulate_mcp_response(endpoint, method, params, data)]
        ELSE IF http.kind = "raises"
        THEN [raised |-> http.exc, msg |-> http.msg, requests |-> <<request>>,
              ret |-> PyNone]
        ELSE IF raise_for_status(http.status)
        THEN [raised |-> "HTTPError", msg |-> "Error for url: " \o url,
              requests |-> <<request>>, ret |-> PyNone]
        ELSE IF ~http.body.valid
        THEN [raised |-> http.body.exc, msg |-> "Expecting value",
              requests |-> <<request>>, ret |-> PyNone]
        ELSE [raised |-> "", msg |-> "", requests |-> <<request>>,
              ret |-> json_dumps(http.body.value, PyInt(2), FALSE)]

\* The try block with the request sent a second time when the first raises.
run_try_retries_once(self, endpoint, method, params, data, http) ==
    LET url == self.base_url \o "/" \o str_lstrip(endpoint, "/")
        request == [method  |-> str_upper(method),
                    url     |-> url,
                    params  |-> params,
                    json    |-> data,
                    timeout |-> RequestTimeout,
                    headers |-> self.headers]
    IN  IF use_simulation(self, endpoint)
        THEN [raised |-> "", msg |-> "", requests |-> <<>>,
              ret |-> simulate_mcp_response(endpoint, method, params, data)]
        ELSE IF http.kind = "raises"
        THEN [raised |-> http.exc, msg |-> http.msg, requests |-> <<request, request>>,
              ret |-> PyNone]
        ELSE IF raise_for_status(http.status)
        THEN [raised |-> "HTTPError", msg |-> "Error for url: " \o url,
              requests |-> <<request>>, ret |-> PyNone]
        ELSE IF ~http.body.valid
        THEN [raised |-> http.body.exc, msg |-> "Expecting value",
              requests |-> <<request>>, ret |-> PyNone]
        ELSE [raised |-> "", msg |-> "", requests |-> <<request>>,
              ret |-> json_dumps(http.body.value, PyInt(2), FALSE)]

\* The try block of _run: either returns, or raises exc with message msg;
\* requests lists the calls of self.session.request it made.
run_try(self, endpoint, method, params, data, http) ==
    LET url == self.base_url \o "/" \o str_lstrip(endpoint, "/")
        request == [method  |-> str_upper(method),
                    url     |-> url,
                    params  |-> params,
                    json    |-> data,
                    timeout |-> RequestTimeout,
                    headers |-> self.headers]
    IN  IF use_simulation(self, endpoint)
        THEN [raised |-> "", msg |-> "", requests |-> <<>>,
              ret |-> simulate_mcp_response(endpoint, method, params, data)]
        ELSE IF http.kind = "raises"
        THEN [raised |-> http.exc, msg |-> http.msg, requests |-> <<request>>,
              ret |-> PyNone]
        ELSE IF raise_for_status(http.status)
        THEN [raised |-> "HTTPError", msg |-> "Error for url: " \o url,
              requests |-> <<request>>, ret |-> PyNone]
        ELSE IF ~http.body.valid
        THEN [raised |-> http.body.exc, msg |-> "Expecting value",
              requests |-> <<request>>, ret |-> PyNone]
        ELSE [raised |-> "", msg |-> "", requests |-> <<request>>,
              ret |-> json_dumps(http.body.value, PyInt(2), FALSE)]

\* _run with the handler for requests.exceptions.RequestException only.
run_without_catch_all(self, endpoint, method, params, data, http) ==
    LET r == run_try(self, endpoint, method, params, data, http)
    IN  IF r.raised = "" THEN [raised |-> "", requests |-> r.requests, ret |-> r.ret]
        ELSE IF IsRequestException(r.raised)
        THEN [raised |-> "", requests |-> r.requests,
              ret |-> json_dumps(PyDict(<< <<"error",
                          PyStr("MCP server request failed: " \o r.msg)>> >>),
                          PyNone, TRUE)]
        ELSE [raised |-> r.raised, requests |-> r.requests, ret |-> PyNone]

\* _run(endpoint, method, params, data): the try block and its two handlers.
run(self, endpoint, method, params, data, http) ==
    LET r == run_try(self, endpoint, method, params, data, http)
    IN  IF r.raised = "" THEN [raised |-> "", requests |-> r.requests, ret |-> r.ret]
        ELSE IF IsRequestException(r.raised)
        THEN [raised |-> "", requests |-> r.requests,
              ret |-> json_dumps(PyDict(<< <<"error",
                          PyStr("MCP server request failed: " \o r.msg)>> >>),
                          PyNone, TRUE)]
        ELSE [raised |-> "", requests |-> r.requests,
              ret |-> json_dumps(PyDict(<< <<"error",
                          PyStr("Unexpected error accessing MCP server: " \o r.msg)>> >>),
                          PyNone, TRUE)]

----------------------------------------------------------------------------
(* lesson3_advanced_patterns.py: class AdvancedMCPTool(FastMCPTool) *)

\* The store AdvancedCrewAIWorkflows creates and passes to its tool, and the
\* one a tool creates for itself when it is given none.
WorkflowStore == 1
OwnStore == 2

\* AdvancedMCPTool.__init__(base_url, api_key, data_store): data_store is the
\* identity of the store passed in, or 0 for None.
AdvancedMCPTool_init(base_url, api_key, data_store) ==
    [base_url   |-> FastMCPTool_init(base_url, api_key).base_url,
     api_key    |-> FastMCPTool_init(base_url, api_key).api_key,
     headers    |-> FastMCPTool_init(base_url, api_key).headers,
     data_store |-> IF data_store # 0 THEN data_store ELSE OwnStore]

RECURSIVE int_str(_)
\* str(n) for n >= 0
int_str(n) ==
    IF n < 10 THEN CharAt("0123456789", n + 1)
    ELSE int_str(n \div 10) \o CharAt("0123456789", (n % 10) + 1)

RECURSIVE str_join(_, _)
\* sep.join(xs) for a list of str values
str_join(sep, xs) ==
    IF xs = <<>> THEN ""
    ELSE IF Len(xs) = 1 THEN xs[1].s
    ELSE xs[1].s \o sep \o str_join(sep, Tail(xs))

\* store_research_data(key, data) returns this after data_store.store(key, data)
store_research_data(key) ==
    PyStr(CheckMark \o " Data stored successfully with key: " \o key)

\* The try block of retrieve_research_data(key) on the store object self_store
retrieve_research_data_try(self_store, key) ==
    LET r == retrieve(self_store, key)
        data == r.ret
    IN  IF r.raised # "" THEN r
        ELSE IF truthy(data)
        THEN IF json_serializable(data)
             THEN Returned(json_dumps(data, PyInt(2), TRUE))
             ELSE Raised("TypeError")
        ELSE Returned(PyStr(CrossMark \o " No data found for key: " \o key))

\* retrieve_research_data with the statements of the try block alone.
retrieve_research_data_without_handler(self_store, key) ==
    retrieve_research_data_try(self_store, key)

\* retrieve_research_data(key) on the store object self_store
retrieve_research_data(self_store, key) ==
    LET r == retrieve_research_data_try(self_store, key)
    IN  IF r.raised # ""
        THEN Returned(PyStr(CrossMark \o " Failed to retrieve data: " \o r.raised))
        ELSE r

\* get_research_summary with "if all_keys is None" as its test.
get_research_summary_tests_for_none(self_store) ==
    LET all_keys == get_all_keys(self_store)
    IN  IF all_keys = PyNone
        THEN PyStr(ChartMark \o " No research data currently stored")
        ELSE PyStr(ChartMark \o " Research Data Summary\n"
                   \o "Total datasets: " \o int_str(Len(all_keys.items)) \o "\n"
                   \o "Available keys: " \o str_join(", ", all_keys.items) \o "\n")

\* get_research_summary() on the store object self_store
get_research_summary(self_store) ==
    LET all_keys == get_all_keys(self_store)
    IN  IF ~truthy(all_keys)
        THEN PyStr(ChartMark \o " No research data currently stored")
        ELSE PyStr(ChartMark \o " Research Data Summary\n"
                   \o "Total datasets: " \o int_str(Len(all_keys.items)) \o "\n"
                   \o "Available keys: " \o str_join(", ", all_keys.items) \o "\n")

----------------------------------------------------------------------------
(* The inputs the callers draw from. *)

Keys == {"market_research", "technical_analysis"}

\* Keys asked for: those stored, and one that never is.
QueryKeys == Keys \cup {"test_key"}

SampleResearch ==
    PyDict(<< <<"growth_rate", PyStr("37.3% CAGR")>>,
              <<"major_players", PyList(<<PyStr("OpenAI"), PyStr("Google")>>)>> >>)

Values == {PyStr("test_value"), SampleResearch, PyDict(<<>>)}

\* Research data that carries a datetime, which json.dumps refuses.
StampedResearch ==
    PyDict(<< <<"topic", PyStr("AI agents")>>,
              <<"generated_at", PyObject("datetime")>> >>)

\* Every kind of value a caller hands to the store.
AnyValues == Values \cup {StampedResearch}

Windows == {1, 2, 60}

\* base_url and api_key as the environment provides them.
Configs ==
    {[base_url |-> "http://localhost:8000",   api_key |-> PyStr("")],
     [base_url |-> "http://localhost:8000/",  api_key |-> PyStr("test-key")],
     [base_url |-> "https://mcp.example.com", api_key |-> PyNone],
     [base_url |-> "https://mcp.example.com/api/", api_key |-> PyStr("secret")],
     [base_url |-> "https://demo.example.com", api_key |-> PyStr("")],
     [base_url |-> "https://mcp.example.com//", api_key |-> PyNone]}

Endpoints ==
    {"weather/forecast", "/WEATHER", "demo/news/weather", "headlines",
     "research", "health/data", "Medical", "Demo/status", "api/users", "demo"}

Methods == {"GET", "post"}

Params ==
    {PyNone, PyDict(<<>>),
     PyDict(<< <<"location", PyStr("Boston, MA")>> >>),
     PyDict(<< <<"query", PyStr("multi-agent systems")>> >>)}

Bodies ==
    {PyNone, PyDict(<<>>),
     PyDict(<< <<"symptoms", PyList(<<PyStr("fever")>>)>> >>),
     PyDict(<< <<"age", PyInt(30)>> >>)}

HttpOutcomes ==
    {HttpRaises("ConnectionError", "Connection refused"),
     HttpRaises("Timeout", "Read timed out"),
     HttpRaises("ValueError", "unexpected"),
     HttpResponse(200, JsonBody(PyDict(<< <<"status", PyStr("ok")>> >>))),
     HttpResponse(200, NotJsonBody("JSONDecodeError")),
     HttpResponse(200, NotJsonBody("ValueError")),
     HttpResponse(300, JsonBody(PyList(<<PyStr("a"), PyStr("b")>>))),
     HttpResponse(404, JsonBody(PyDict(<< <<"detail", PyStr("Not Found")>> >>))),
     HttpResponse(503, NotJsonBody("JSONDecodeError"))}

\* No call pending; no answer of the network, when none was asked for.
NoCall == [kind |-> "none"]

\* The two values demonstrate_data_sharing stores.
MarketResearchSample ==
    PyDict(<< <<"ai_agents_market_size", PyStr("$15.7 billion in 2024")>>,
              <<"growth_rate", PyStr("37.3% CAGR")>>,
              <<"key_applications",
                PyList(<<PyStr("Healthcare"), PyStr("Finance"),
                         PyStr("Manufacturing"), PyStr("Customer Service")>>)>>,
              <<"major_players",
                PyList(<<PyStr("OpenAI"), PyStr("Anthropic"),
                         PyStr("Google"), PyStr("Microsoft")>>)>> >>)

TechnicalAnalysisSample ==
    PyDict(<< <<"architecture", PyStr("multi-agent")>>,
              <<"performance", PyStr("high")>> >>)

\* A call of demonstrate_data_sharing: the statement it is at, and its locals.
DemoCall(pc, market_data, summary) ==
    [kind |-> "demo", pc |-> pc, market_data |-> market_data, summary |-> summary]

\* Calls of _run one of each kind: a default answer, a weather answer with a
\* leading separator and a lower-case method, a request with a body.
SampleCalls ==
    {[kind |-> "run", endpoint |-> "demo", method |-> "GET",
      params |-> PyNone, data |-> PyNone],
     [kind |-> "run", endpoint |-> "/WEATHER", method |-> "post",
      params |-> PyDict(<< <<"location", PyStr("Boston, MA")>> >>), data |-> PyNone],
     [kind |-> "run", endpoint |-> "api/users", method |-> "post",
      params |-> PyNone, data |-> PyDict(<< <<"age", PyInt(30)>> >>)]}

----------------------------------------------------------------------------
(* The state after construction. *)

\* AdvancedCrewAIWorkflows.__init__: a new store, and a tool that is given it.
Init ==
    /\ now = 0
    /\ stores = [id \in {WorkflowStore} |-> ResearchDataStore_init]
    /\ \E cfg \in Configs :
          /\ ctor = [base_url |-> cfg.base_url, api_key |-> cfg.api_key,
                     data_store |-> WorkflowStore]
          /\ tool = AdvancedMCPTool_init(cfg.base_url, cfg.api_key, WorkflowStore)
    /\ call = NoCall
    /\ last = [op |-> "init"]

\* The same, at the point where the caller is about to call _run; the store
\* is empty or holds what one store_research_data call left in it.
InitRun ==
    /\ now = 0
    /\ stores \in {[id \in {WorkflowStore} |-> ResearchDataStore_init],
                   [id \in {WorkflowStore} |->
                       store(ResearchDataStore_init, "market_research",
                             SampleResearch, 0)]}
    /\ \E cfg \in Configs :
          /\ ctor = [base_url |-> cfg.base_url, api_key |-> cfg.api_key,
                     data_store |-> WorkflowStore]
          /\ tool = AdvancedMCPTool_init(cfg.base_url, cfg.api_key, WorkflowStore)
    /\ \E e \in Endpoints, m \in Methods, p \in Params, d \in Bodies :
          call = [kind |-> "run", endpoint |-> e, method |-> m, params |-> p, data |-> d]
    /\ last = [op |-> "init"]

\* The workflow after construction, with or without a call of _run to come.
InitAll ==
    /\ now = 0
    /\ stores = [id \in {WorkflowStore} |-> ResearchDataStore_init]
    /\ \E cfg \in Configs :
          /\ ctor = [base_url |-> cfg.base_url, api_key |-> cfg.api_key,
                     data_store |-> WorkflowStore]
          /\ tool = AdvancedMCPTool_init(cfg.base_url, cfg.api_key, WorkflowStore)
    /\ call \in SampleCalls \cup {NoCall}
    /\ last = [op |-> "init"]

\* A store, and a tool constructed with that store or with no store; in
\* the second case the constructor makes the tool a new store of its own.
InitShare ==
    /\ now = 0
    /\ \E cfg \in Configs, given \in {WorkflowStore, 0} :
          /\ ctor = [base_url |-> cfg.base_url, api_key |-> cfg.api_key,
                     data_store |-> given]
          /\ tool = AdvancedMCPTool_init(cfg.base_url, cfg.api_key, given)
    /\ stores = [id \in {WorkflowStore, tool.data_store} |-> ResearchDataStore_init]
    /\ call = NoCall
    /\ last = [op |-> "init"]

\* A new workflow on which demonstrate_data_sharing has just been called.
InitDemo ==
    /\ now = 0
    /\ stores = [id \in {WorkflowStore} |-> ResearchDataStore_init]
    /\ \E cfg \in Configs :
          /\ ctor = [base_url |-> cfg.base_url, api_key |-> cfg.api_key,
                     data_store |-> WorkflowStore]
          /\ tool = AdvancedMCPTool_init(cfg.base_url, cfg.api_key, WorkflowStore)
    /\ call = DemoCall("store_market", PyNone, PyNone)
    /\ last = [op |-> "init"]

----------------------------------------------------------------------------
(* The operations. *)

\* Time passes.
Tick ==
    /\ now < MaxTime
    /\ now' = now + 1
    /\ UNCHANGED <<stores, ctor, tool, call, last>>

\* data_store.store(key, value)
Store(key, value) ==
    /\ stores' = [stores EXCEPT ![WorkflowStore] = store(@, key, value, now)]
    /\ last' = [op |-> "store", key |-> key, value |-> value,
                raised |-> "", ret |-> PyNone]
    /\ UNCHANGED <<now, ctor, tool, call>>

\* retrieve written with self.data.pop(key, None): the entry read is removed.
Retrieve_pops(key) ==
    /\ last' = [op |-> "retrieve", key |-> key,
                raised |-> retrieve(stores[WorkflowStore], key).raised,
                ret |-> retrieve(stores[WorkflowStore], key).ret]
    /\ stores' = [stores EXCEPT ![WorkflowStore] =
                     [data       |-> SelectSeq(@.data, LAMBDA pair : pair[1] # key),
                      timestamps |-> @.timestamps]]
    /\ UNCHANGED <<now, ctor, tool, call>>

\* data_store.retrieve(key)
Retrieve(key) ==
    /\ last' = [op |-> "retrieve", key |-> key,
                raised |-> retrieve(stores[WorkflowStore], key).raised,
                ret |-> retrieve(stores[WorkflowStore], key).ret]
    /\ UNCHANGED <<now, stores, ctor, tool, call>>

\* data_store.get_all_keys()
GetAllKeys ==
    /\ last' = [op |-> "get_all_keys",
                raised |-> "", ret |-> get_all_keys(stores[WorkflowStore])]
    /\ UNCHANGED <<now, stores, ctor, tool, call>>

\* data_store.get_recent(minutes)
GetRecent(minutes) ==
    /\ last' = [op |-> "get_recent", minutes |-> minutes,
                raised |-> get_recent(stores[WorkflowStore], minutes, now).raised,
                ret |-> get_recent(stores[WorkflowStore], minutes, now).ret]
    /\ UNCHANGED <<now, stores, ctor, tool, call>>

\* mcp_tool.store_research_data(key, data)
StoreResearchData(key, data) ==
    /\ stores' = [stores EXCEPT ![tool.data_store] = store(@, key, data, now)]
    /\ last' = [op |-> "store_research_data", key |-> key, value |-> data,
                raised |-> "", ret |-> store_research_data(key)]
    /\ UNCHANGED <<now, ctor, tool, call>>

\* mcp_tool.retrieve_research_data(key)
RetrieveResearchData(key) ==
    /\ last' = [op |-> "retrieve_research_data", key |-> key,
                raised |-> retrieve_research_data(stores[tool.data_store], key).raised,
                ret |-> retrieve_research_data(stores[tool.data_store], key).ret]
    /\ UNCHANGED <<now, stores, ctor, tool, call>>

\* mcp_tool.get_research_summary()
GetResearchSummary ==
    /\ last' = [op |-> "get_research_summary", raised |-> "",
                ret |-> get_research_summary(stores[tool.data_store])]
    /\ UNCHANGED <<now, stores, ctor, tool, call>>

\* _run with the method of a live call recorded in the session's headers
\* in place of an argument of the request.
Run_updates_session_headers(http) ==
    /\ call # NoCall
    /\ LET r == run(tool, call.endpoint, call.method, call.params, call.data, http)
       IN  /\ last' = [op |-> "run", endpoint |-> call.endpoint, method |-> call.method,
                       params |-> call.params, data |-> call.data,
                       raised |-> r.raised, ret |-> r.ret, requests |-> r.requests,
                       http |-> IF r.requests = <<>> THEN NoCall ELSE http]
           /\ tool' = IF r.requests = <<>> THEN tool
                      ELSE [tool EXCEPT !.headers =
                               dict_set(@, "X-HTTP-Method", PyStr(str_upper(call.method)))]
    /\ call' = NoCall
    /\ UNCHANGED <<now, stores, ctor>>

\* mcp_tool._run(endpoint, method, params, data), with the network's answer
Run(http) ==
    /\ call # NoCall
    /\ LET r == run(tool, call.endpoint, call.method, call.params, call.data, http)
       IN  last' = [op |-> "run", endpoint |-> call.endpoint, method |-> call.method,
                    params |-> call.params, data |-> call.data,
                    raised |-> r.raised, ret |-> r.ret, requests |-> r.requests,
                    http |-> IF r.requests = <<>> THEN NoCall ELSE http]
    /\ call' = NoCall
    /\ UNCHANGED <<now, stores, ctor, tool>>

\* demonstrate_data_sharing, first statement:
\* self.mcp_tool.store_research_data("market_research", sample_research_data)
DemoStoreMarket ==
    /\ call.kind = "demo" /\ call.pc = "store_market"
    /\ stores' = [stores EXCEPT ![tool.data_store] =
                     store(@, "market_research", MarketResearchSample, now)]
    /\ last' = [op |-> "store_research_data", key |-> "market_research",
                value |-> MarketResearchSample,
                raised |-> "", ret |-> store_research_data("market_research")]
    /\ call' = DemoCall("store_technical", call.market_data, call.summary)
    /\ UNCHANGED <<now, ctor, tool>>

\* self.mcp_tool.store_research_data("technical_analysis", {...})
DemoStoreTechnical ==
    /\ call.kind = "demo" /\ call.pc = "store_technical"
    /\ stores' = [stores EXCEPT ![tool.data_store] =
                     store(@, "technical_analysis", TechnicalAnalysisSample, now)]
    /\ last' = [op |-> "store_research_data", key |-> "technical_analysis",
                value |-> TechnicalAnalysisSample,
                raised |-> "", ret |-> store_research_data("technical_analysis")]
    /\ call' = DemoCall("retrieve", call.market_data, call.summary)
    /\ UNCHANGED <<now, ctor, tool>>

\* The statement of demonstrate_data_sharing that retrieves, with the key
\* misspelt as "market_data".
DemoRetrieve_misspelt_key ==
    /\ call.kind = "demo" /\ call.pc = "retrieve"
    /\ LET r == retrieve_research_data(stores[tool.data_store], "market_data")
       IN  /\ last' = [op |-> "retrieve_research_data", key |-> "market_data",
                       raised |-> r.raised, ret |-> r.ret]
           /\ call' = IF r.raised # ""
                      THEN DemoCall("raised", call.market_data, call.summary)
                      ELSE DemoCall("summary", r.ret, call.summary)
    /\ UNCHANGED <<now, stores, ctor, tool>>

\* market_data = self.mcp_tool.retrieve_research_data("market_research");
\* an exception would leave demonstrate_data_sharing, which has no handler.
DemoRetrieve ==
    /\ call.kind = "demo" /\ call.pc = "retrieve"
    /\ LET r == retrieve_research_data(stores[tool.data_store], "market_research")
       IN  /\ last' = [op |-> "retrieve_research_data", key |-> "market_research",
                       raised |-> r.raised, ret |-> r.ret]
           /\ call' = IF r.raised # ""
                      THEN DemoCall("raised", call.market_data, call.summary)
                      ELSE DemoCall("summary", r.ret, call.summary)
    /\ UNCHANGED <<now, stores, ctor, tool>>

\* summary = self.mcp_tool.get_research_summary(), and the return
DemoSummary ==
    /\ call.kind = "demo" /\ call.pc = "summary"
    /\ last' = [op |-> "get_research_summary", raised |-> "",
                ret |-> get_research_summary(stores[tool.data_store])]
    /\ call' = DemoCall("done", call.market_data,
                        get_research_summary(stores[tool.data_store]))
    /\ UNCHANGED <<now, stores, ctor, tool>>

Next ==
    \/ Tick
    \/ \E k \in Keys, v \in Values : Store(k, v)
    \/ \E k \in QueryKeys : Retrieve(k)
    \/ GetAllKeys
    \/ \E w \in Windows : GetRecent(w)
    \/ \E k \in Keys, v \in Values : StoreResearchData(k, v)
    \/ \E k \in QueryKeys : RetrieveResearchData(k)
    \/ GetResearchSummary

NextRun == \E http \in HttpOutcomes : Run(http)

\* The store and the research-sharing operations, called in any order.
Spec == Init /\ [][Next]_vars

\* One call of _run, for every adapter, input and answer of the network.
SpecRun == InitRun /\ [][NextRun]_vars

\* The statements of demonstrate_data_sharing, in program order.
DemoStep ==
    \/ DemoStoreMarket
    \/ DemoStoreTechnical
    \/ DemoRetrieve
    \/ DemoSummary

NextDemo == Tick \/ DemoStep

\* One call of demonstrate_data_sharing on a new workflow, with time passing
\* between its statements; a statement that can run does run.
SpecDemo == InitDemo /\ [][NextDemo]_vars /\ WF_vars(DemoStep)

NextShare ==
    \/ \E k \in Keys, v \in Values : Store(k, v)
    \/ \E k \in QueryKeys : Retrieve(k)
    \/ GetAllKeys
    \/ \E k \in Keys, v \in Values : StoreResearchData(k, v)
    \/ \E k \in QueryKeys : RetrieveResearchData(k)
    \/ GetResearchSummary

\* The store and the research-sharing operations at one reading of the
\* clock, for a tool that was given the store and for one that was not.
SpecShare == InitShare /\ [][NextShare]_vars

NextAll ==
    \/ \E k \in Keys, v \in AnyValues : Store(k, v)
    \/ \E k \in QueryKeys : Retrieve(k)
    \/ GetAllKeys
    \/ \E w \in Windows : GetRecent(w)
    \/ \E k \in Keys, v \in AnyValues : StoreResearchData(k, v)
    \/ \E k \in QueryKeys : RetrieveResearchData(k)
    \/ GetResearchSummary
    \/ \E http \in HttpOutcomes : Run(http)

\* Every operation of the store and of the adapter, _run among them, in any
\* order and with every kind of value, at one reading of the clock.
SpecAll == InitAll /\ [][NextAll]_vars

----------------------------------------------------------------------------
(* Properties of the store. *)

TheStore == stores[WorkflowStore]

\* The time recorded for key k.
StoredAt(s, k) == dict_get(s.timestamps, k, -1)

\* How many entries the store holds for key k.
EntriesFor(s, k) == Cardinality({i \in 1..Len(s.data) : s.data[i][1] = k})

\* C1: round trip.  In the state a call store(k, v) leaves, whatever the
\* store held before, retrieve(k) returns v itself and does not raise.
C1_StoreThenRetrieve ==
    last.op = "store" =>
        /\ retrieve(TheStore, last.key).raised = ""
        /\ retrieve(TheStore, last.key).ret = last.value

\* store(k, v) has just run on a store that held another key and an older
\* value for k, with v a nested structure, and retrieve(k) gives v.
C1_Witness ==
    /\ last.op = "store"
    /\ last.value = SampleResearch
    /\ Len(TheStore.data) = 2
    /\ TheStore.data[1][1] = last.key
    /\ retrieve(TheStore, last.key).ret = SampleResearch

\* C2: last write wins.  A call store(k, v2) on a store that already holds k
\* leaves retrieve(k) = v2 and exactly one entry for k, and the time recorded
\* for k is the time of this second write, not earlier than the time recorded
\* by the first.
C2_Overwrite ==
    [][\A k \in Keys, v2 \in Values :
          (Store(k, v2) /\ dict_has(TheStore.data, k)) =>
              /\ retrieve(TheStore', k).ret = v2
              /\ EntriesFor(TheStore', k) = 1
              /\ Len(TheStore'.data) = Len(TheStore.data)
              /\ StoredAt(TheStore', k) = now
              /\ StoredAt(TheStore', k) >= StoredAt(TheStore, k)]_vars

\* The first key inserted carries a later time than the second one, so it
\* was written again after the second was inserted; the last call wrote it.
C2_Witness ==
    /\ last.op = "store"
    /\ Len(TheStore.data) = 2
    /\ TheStore.data[1][1] = last.key
    /\ TheStore.data[1][2] = last.value
    /\ StoredAt(TheStore, TheStore.data[1][1]) > StoredAt(TheStore, TheStore.data[2][1])
    /\ StoredAt(TheStore, last.key) = now

\* C3: retrieve(k) for a key the store does not hold (keys are never removed,
\* so: a key never stored) returns None and does not raise.
C3_RetrieveUnknown ==
    (last.op = "retrieve" /\ ~dict_has(TheStore.data, last.key)) =>
        /\ last.raised = ""
        /\ last.ret = PyNone

\* retrieve of a key never stored, on a store that holds other keys.
C3_Witness ==
    /\ last.op = "retrieve"
    /\ last.key = "test_key"
    /\ Len(TheStore.data) = 2
    /\ last.ret = PyNone

----------------------------------------------------------------------------
(* Properties of _run. *)

\* The rule the adapter is specified to select the simulation by: the
\* literal "demo" in the endpoint, or the default local base URL.
SimulationSelected(endpoint) ==
    str_contains("demo", endpoint) \/ tool.base_url = "http://localhost:8000"

\* Which of the five simulated payloads a JSON object is, by the source it
\* names: "none" for any other object.
CategoryOf(obj) ==
    IF obj.kind # "dict" THEN "none"
    ELSE IF dict_get(obj.pairs, "source", PyNone) = PyStr("MCP Weather Service") THEN "weather"
    ELSE IF dict_get(obj.pairs, "source", PyNone) = PyStr("MCP News Aggregator") THEN "news"
    ELSE IF dict_get(obj.pairs, "source", PyNone) = PyStr("MCP Research Database") THEN "research"
    ELSE IF dict_get(obj.pairs, "source", PyNone) = PyStr("MCP Health Assistant") THEN "health"
    ELSE IF dict_get(obj.pairs, "data_source", PyNone) = PyStr("MCP Demo Server") THEN "default"
    ELSE "none"

FiveCategories == {"weather", "news", "research", "health", "default"}

\* The categories in the order they are specified to be tried, each with
\* its keywords.
CategoryOrder ==
    << <<"weather", {"weather", "forecast"}>>,
       <<"news", {"news", "headlines"}>>,
       <<"research", {"research", "data"}>>,
       <<"health", {"health", "medical"}>> >>

CategoryMatches(i, endpoint) ==
    \E kw \in CategoryOrder[i][2] : str_contains(kw, str_lower(endpoint))

\* The earliest category a keyword of which occurs in the endpoint, in any
\* case; "default" when none does.
ExpectedCategory(endpoint) ==
    IF \E i \in 1..Len(CategoryOrder) : CategoryMatches(i, endpoint)
    THEN CategoryOrder[CHOOSE i \in 1..Len(CategoryOrder) :
                          /\ CategoryMatches(i, endpoint)
                          /\ \A j \in 1..(i - 1) : ~CategoryMatches(j, endpoint)][1]
    ELSE "default"

\* The string is the serialisation of a JSON object with an "error" key.
HasErrorKey(ret) ==
    /\ ret.kind = "str"
    /\ "json" \in DOMAIN ret
    /\ ret.json.kind = "dict"
    /\ dict_has(ret.json.pairs, "error")

\* The live path met a failure: the transport raised, the status is one
\* requests reports as an error (4xx, 5xx), or the body is not JSON.
LiveFailure(http) ==
    \/ http.kind = "raises"
    \/ /\ http.kind = "response"
       /\ \/ (400 <= http.status /\ http.status < 600)
          \/ ~http.body.valid

C5_BranchDecision ==
    last.op = "run" =>
        /\ (last.requests = <<>> /\ CategoryOf(last.ret.json) \in FiveCategories)
              <=> SimulationSelected(last.endpoint)
        /\ ~SimulationSelected(last.endpoint) => Len(last.requests) = 1

\* "Demo" with a capital, on an adapter whose base URL holds "demo": live.
C5_Witness ==
    /\ last.op = "run"
    /\ last.endpoint = "Demo/status"
    /\ tool.base_url = "https://demo.example.com"
    /\ Len(last.requests) = 1

\* C6: a call of _run that takes the simulation (the step that consumes the
\* pending call) sends no HTTP request, leaves the attached store as it was,
\* and returns one of the five simulated payloads.
C6_SimulationFrame ==
    [][(/\ call # NoCall
        /\ call' = NoCall
        /\ SimulationSelected(call.endpoint)) =>
            /\ last'.op = "run"
            /\ last'.endpoint = call.endpoint
            /\ last'.requests = <<>>
            /\ stores' = stores
            /\ CategoryOf(last'.ret.json) \in FiveCategories]_vars

\* A simulated call on an adapter with a live base URL and a non-empty store.
C6_Witness ==
    /\ last.op = "run"
    /\ SimulationSelected(last.endpoint)
    /\ tool.base_url = "https://mcp.example.com"
    /\ stores[tool.data_store].data # <<>>
    /\ last.requests = <<>>
    /\ CategoryOf(last.ret.json) = "default"

\* C7: the simulation returns the payload of the earliest category, in the
\* order weather, news, research, health, a keyword of which occurs in the
\* endpoint in any case, and the default payload when no keyword occurs.
C7_CategorySelection ==
    (last.op = "run" /\ SimulationSelected(last.endpoint)) =>
        CategoryOf(last.ret.json) = ExpectedCategory(last.endpoint)

\* An endpoint with a research keyword and a health keyword gets research.
C7_Witness ==
    /\ last.op = "run"
    /\ SimulationSelected(last.endpoint)
    /\ last.endpoint = "health/data"
    /\ CategoryOf(last.ret.json) = "research"

\* C8: the simulated weather payload has the keys temperature, conditions,
\* humidity and wind_speed, and its location is params' location when params
\* has one, and "San Francisco, CA" when params is None, empty or without
\* a location.
C8_WeatherPayload ==
    (/\ last.op = "run"
     /\ SimulationSelected(last.endpoint)
     /\ ExpectedCategory(last.endpoint) = "weather") =>
        LET payload == last.ret.json.pairs
        IN  /\ \A key \in {"temperature", "conditions", "humidity", "wind_speed"} :
                  dict_has(payload, key)
            /\ dict_has(payload, "location")
            /\ dict_get(payload, "location", PyNone) =
                  IF last.params.kind = "dict" /\ dict_has(last.params.pairs, "location")
                  THEN dict_get(last.params.pairs, "location", PyNone)
                  ELSE PyStr("San Francisco, CA")

\* The weather simulation asked for Boston answers for Boston.
C8_Witness ==
    /\ last.op = "run"
    /\ SimulationSelected(last.endpoint)
    /\ ExpectedCategory(last.endpoint) = "weather"
    /\ last.params = PyDict(<< <<"location", PyStr("Boston, MA")>> >>)
    /\ dict_get(last.ret.json.pairs, "location", PyNone) = PyStr("Boston, MA")

\* C9: the simulated health payload's symptoms are the body's symptoms when
\* the body has them, and ["headache", "fatigue"] when the body is None,
\* empty or without symptoms.
C9_HealthPayload ==
    (/\ last.op = "run"
     /\ SimulationSelected(last.endpoint)
     /\ ExpectedCategory(last.endpoint) = "health") =>
        LET payload == last.ret.json.pairs
        IN  /\ dict_has(payload, "symptoms")
            /\ dict_get(payload, "symptoms", PyNone) =
                  IF last.data.kind = "dict" /\ dict_has(last.data.pairs, "symptoms")
                  THEN dict_get(last.data.pairs, "symptoms", PyNone)
                  ELSE PyList(<<PyStr("headache"), PyStr("fatigue")>>)

\* The health simulation given symptoms in the body returns them.
C9_Witness ==
    /\ last.op = "run"
    /\ SimulationSelected(last.endpoint)
    /\ ExpectedCategory(last.endpoint) = "health"
    /\ last.data = PyDict(<< <<"symptoms", PyList(<<PyStr("fever")>>)>> >>)
    /\ dict_get(last.ret.json.pairs, "symptoms", PyNone) = PyList(<<PyStr("fever")>>)

----------------------------------------------------------------------------
(* Properties of get_recent. *)

\* The entries of the store recorded strictly after t - minutes, as the
\* mapping from key to current value.
RecentEntries(s, minutes, t) ==
    {<<s.data[i][1], s.data[i][2]>> :
        i \in {j \in 1..Len(s.data) : StoredAt(s, s.data[j][1]) > t - minutes}}

\* C10: get_recent(minutes) returns exactly the mapping key -> value of the
\* entries stored strictly after now - minutes.
C10_GetRecentWindow ==
    last.op = "get_recent" =>
        /\ last.raised = ""
        /\ last.ret.kind = "dict"
        /\ {last.ret.pairs[i] : i \in 1..Len(last.ret.pairs)}
              = RecentEntries(TheStore, last.minutes, now)

\* C11: every call of get_recent, for every window and every content of the
\* store, the empty one included, ends in NameError with no result computed,
\* and leaves the data and the timestamps of every store as they were.
C11_GetRecentAlwaysFails ==
    [][\A w \in Windows :
          GetRecent(w) =>
              /\ last'.raised = "NameError"
              /\ last'.ret = PyNone
              /\ stores' = stores]_vars

\* get_recent has been called with the widest window on a store that
\* holds two entries, and ended in NameError.
C11_Witness ==
    /\ last.op = "get_recent"
    /\ last.minutes = 60
    /\ last.raised = "NameError"
    /\ Len(TheStore.data) = 2
    /\ Len(TheStore.timestamps) = 2

----------------------------------------------------------------------------
(* Properties of every operation together. *)

\* C12: no deletion.  Whatever operation of the store or of the adapter
\* runs, every key a store held before it (in data and in timestamps) the
\* same store holds after it, and no store disappears.
C12_KeysOnlyGrow ==
    [][\A id \in DOMAIN stores :
          /\ id \in DOMAIN stores'
          /\ \A k \in QueryKeys :
                /\ dict_has(stores[id].data, k) => dict_has(stores'[id].data, k)
                /\ dict_has(stores[id].timestamps, k)
                      => dict_has(stores'[id].timestamps, k)]_vars

\* Both keys were stored, one of them with an empty value, and a live call
\* of _run has run since: both are still held.
C12_Witness ==
    /\ last.op = "run"
    /\ Len(last.requests) = 1
    /\ dict_keys(TheStore.data) = <<"technical_analysis", "market_research">>
    /\ dict_get(TheStore.data, "technical_analysis", PyNone) = PyDict(<<>>)

----------------------------------------------------------------------------
(* Properties of get_all_keys. *)

\* The str values of a Python list of str, as a set.
ListedKeys(items) == {items[i].s : i \in 1..Len(items)}

\* C13: get_all_keys returns exactly the keys held, each once, in the order
\* of first insertion: across every step its result either stays as it was
\* or gains one key, not listed before, at the end; a write (a step that
\* leaves the clock alone and ends with a store call as the last one made)
\* on a key already held leaves it as it was, same number of keys and same
\* positions; and the call returns that list.
C13_ListKeysInsertionOrder ==
    [][LET before == get_all_keys(TheStore).items
           after  == get_all_keys(TheStore').items
       IN  /\ \/ after = before
              \/ \E k \in Keys :
                    /\ k \notin ListedKeys(before)
                    /\ after = Append(before, PyStr(k))
           /\ (/\ last'.op \in {"store", "store_research_data"}
                /\ now' = now
                /\ dict_has(TheStore.data, last'.key)) => after = before
           /\ ListedKeys(after) = {k \in QueryKeys : dict_has(TheStore'.data, k)}
           /\ Cardinality(ListedKeys(after)) = Len(after)
           /\ GetAllKeys => last'.ret = PyList(after)]_vars

\* get_all_keys has returned both keys with the key inserted first in front,
\* although that key was written again after the second was inserted.
C13_Witness ==
    /\ last.op = "get_all_keys"
    /\ last.ret = PyList(<<PyStr("technical_analysis"), PyStr("market_research")>>)
    /\ StoredAt(TheStore, "technical_analysis") > StoredAt(TheStore, "market_research")

----------------------------------------------------------------------------
(* Properties of the tool and the store it is given. *)

\* C14: a tool constructed with a store works on that store: what
\* store_research_data wrote, retrieve on the store returns; what store
\* wrote directly, retrieve_research_data returns in serialised form and
\* get_research_summary lists.  A tool constructed without a store works
\* on another store than the caller's, empty when the tool is new.
C14_SharedStore ==
    /\ ctor.data_store # 0 =>
          /\ tool.data_store = ctor.data_store
          /\ last.op = "store_research_data" =>
                retrieve(stores[ctor.data_store], last.key) = Returned(last.value)
          /\ last.op = "store" =>
                /\ retrieve_research_data(stores[tool.data_store], last.key)
                      = Returned(json_dumps(last.value, PyInt(2), TRUE))
                /\ str_contains(last.key,
                                get_research_summary(stores[tool.data_store]).s)
    /\ ctor.data_store = 0 =>
          /\ tool.data_store # WorkflowStore
          /\ last.op = "init" => stores[tool.data_store] = ResearchDataStore_init

----------------------------------------------------------------------------
(* Properties of the research-sharing operations. *)

SharingOps == {"store_research_data", "retrieve_research_data", "get_research_summary"}

\* s begins with prefix
str_startswith(s, prefix) ==
    Len(s) >= Len(prefix) /\ SubSeq(s, 1, Len(prefix)) = prefix

\* C15: store_research_data, retrieve_research_data and get_research_summary
\* never raise and always return a str; when the store or the formatting of
\* the result raised inside retrieve_research_data, the str returned begins
\* with the failure marker.
C15_SharingNeverRaises ==
    last.op \in SharingOps =>
        /\ last.raised = ""
        /\ last.ret.kind = "str"
        /\ (/\ last.op = "retrieve_research_data"
             /\ retrieve_research_data_try(stores[tool.data_store], last.key).raised # "")
              => /\ "s" \in DOMAIN last.ret
                 /\ str_startswith(last.ret.s, CrossMark)

\* retrieve_research_data was asked for a key whose value holds a datetime:
\* json.dumps raised, and the call returned the failure message.
C15_Witness ==
    /\ last.op = "retrieve_research_data"
    /\ dict_get(stores[tool.data_store].data, last.key, PyNone) = StampedResearch
    /\ last.raised = ""
    /\ last.ret = PyStr(CrossMark \o " Failed to retrieve data: TypeError")

----------------------------------------------------------------------------
(* Properties of the request _run sends. *)

\* C16: a call of _run sends at most one request: none when the simulation
\* is selected, exactly one otherwise, with a timeout of 30 seconds; when
\* that one request fails the call has already returned the error object,
\* with no second request.
C16_SingleAttempt ==
    last.op = "run" =>
        /\ Len(last.requests) <= 1
        /\ SimulationSelected(last.endpoint) => last.requests = <<>>
        /\ ~SimulationSelected(last.endpoint) =>
              /\ Len(last.requests) = 1
              /\ last.requests[1].timeout = 30
              /\ LiveFailure(last.http) => HasErrorKey(last.ret)

\* The one request of a live call timed out, and the call returned the
\* error object.
C16_Witness ==
    /\ last.op = "run"
    /\ last.http = HttpRaises("Timeout", "Read timed out")
    /\ Len(last.requests) = 1
    /\ last.requests[1].timeout = 30
    /\ HasErrorKey(last.ret)

\* The tool was constructed with an API key that is a non-empty str.
KeyGiven == ctor.api_key.kind = "str" /\ ctor.api_key.s # ""

\* C17: every request a tool sends carries Authorization: Bearer <key> when
\* the tool was constructed with a non-empty key, and no Authorization
\* header when it was constructed with None or with the empty string.
C17_AuthorizationHeader ==
    last.op = "run" =>
        \A i \in 1..Len(last.requests) :
            LET headers == last.requests[i].headers
            IN  IF KeyGiven
                THEN dict_get(headers, "Authorization", PyNone)
                        = PyStr("Bearer " \o ctor.api_key.s)
                ELSE ~dict_has(headers, "Authorization")

\* A tool constructed with the key "secret" has sent a request, which
\* carries the key as bearer token.
C17_Witness ==
    /\ last.op = "run"
    /\ ctor.api_key = PyStr("secret")
    /\ Len(last.requests) = 1
    /\ dict_get(last.requests[1].headers, "Authorization", PyNone)
          = PyStr("Bearer secret")

RECURSIVE Slashes(_)
\* The string of n separators.
Slashes(n) == IF n = 0 THEN "" ELSE "/" \o Slashes(n - 1)

\* s ends with suffix
str_endswith(s, suffix) ==
    Len(s) >= Len(suffix) /\ SubSeq(s, Len(s) - Len(suffix) + 1, Len(s)) = suffix

\* C18: the base URL the tool holds is the one it was constructed with,
\* less its trailing separators, and does not end with a separator; a call
\* of _run builds the URL of its request from it and decides on the
\* simulation by it, so that a tool constructed with the default base URL
\* followed by a separator simulates every call.
C18_BaseUrlNormalized ==
    /\ ~str_endswith(tool.base_url, "/")
    /\ \E n \in 0..Len(ctor.base_url) :
          ctor.base_url = tool.base_url \o Slashes(n)
    /\ last.op = "run" =>
          /\ (last.requests = <<>>) <=>
                (str_contains("demo", last.endpoint)
                    \/ tool.base_url = "http://localhost:8000")
          /\ last.requests # <<>> =>
                str_startswith(last.requests[1].url, tool.base_url \o "/")
          /\ ctor.base_url = "http://localhost:8000" \o "/" =>
                /\ last.requests = <<>>
                /\ CategoryOf(last.ret.json) \in FiveCategories

\* A tool constructed with "http://localhost:8000/" was called with an
\* endpoint that does not contain "demo", and answered from the simulation.
C18_Witness ==
    /\ ctor.base_url = "http://localhost:8000/"
    /\ tool.base_url = "http://localhost:8000"
    /\ last.op = "run"
    /\ last.endpoint = "api/users"
    /\ last.requests = <<>>
    /\ CategoryOf(last.ret.json) = "default"

----------------------------------------------------------------------------
(* Properties of the tool's configuration. *)

\* C19: no operation changes the configuration of the tool.  Every step,
\* a call of _run answered from the simulation, answered by the network or
\* failed, and each of store_research_data, retrieve_research_data and
\* get_research_summary, leaves base_url, api_key and the session's headers
\* as they were.
C19_ConfigImmutable ==
    [][/\ tool'.base_url = tool.base_url
       /\ tool'.api_key = tool.api_key
       /\ tool'.headers = tool.headers]_vars

\* Two keys were stored and then a live call of _run failed; the tool still
\* has the configuration the constructor gave it, bearer token included.
C19_Witness ==
    /\ last.op = "run"
    /\ Len(last.requests) = 1
    /\ HasErrorKey(last.ret)
    /\ Len(TheStore.data) = 2
    /\ ctor.api_key = PyStr("secret")
    /\ tool.base_url = "https://mcp.example.com/api"
    /\ tool.api_key = PyStr("secret")
    /\ dict_get(tool.headers, "Authorization", PyNone) = PyStr("Bearer secret")
    /\ Len(tool.headers) = Len(SessionDefaultHeaders) + 2

\* The response carries a success status and a JSON body.
SuccessResponse(http) ==
    /\ http.kind = "response"
    /\ 200 <= http.status /\ http.status < 300
    /\ http.body.valid

\* C20: the request of a live call goes to the tool's base URL, one
\* separator, and the endpoint less its leading separators; its method is
\* the method given in upper case, its query parameters are params and its
\* JSON body is data; and when the response has a success status and a JSON
\* body, the call returns the serialisation of that body.
C20_LiveRequestShape ==
    (last.op = "run" /\ last.requests # <<>>) =>
        LET request == last.requests[1]
            prefix  == tool.base_url \o "/"
            rest    == SubSeq(request.url, Len(prefix) + 1, Len(request.url))
        IN  /\ str_startswith(request.url, prefix)
            /\ ~str_startswith(rest, "/")
            /\ \E n \in 0..Len(last.endpoint) : last.endpoint = Slashes(n) \o rest
            /\ str_lower(request.method) = str_lower(last.method)
            /\ \A i \in 1..Len(request.method) :
                  CharAt(request.method, i) \notin
                      {CharAt(LowerLetters, j) : j \in 1..Len(LowerLetters)}
            /\ request.params = last.params
            /\ request.json = last.data
            /\ SuccessResponse(last.http) =>
                  /\ last.raised = ""
                  /\ last.ret.kind = "str"
                  /\ "json" \in DOMAIN last.ret
                  /\ last.ret.json = last.http.body.value

\* A call with endpoint "/WEATHER" and method "post" on a tool whose base
\* URL was given with a trailing separator: the request is a POST to the
\* URL with one separator at the join, and the answer is the response's body.
C20_Witness ==
    /\ last.op = "run"
    /\ ctor.base_url = "https://mcp.example.com/api/"
    /\ last.endpoint = "/WEATHER"
    /\ last.method = "post"
    /\ Len(last.requests) = 1
    /\ last.requests[1].url = "https://mcp.example.com/api/WEATHER"
    /\ last.requests[1].method = "POST"
    /\ last.requests[1].params = PyDict(<< <<"location", PyStr("Boston, MA")>> >>)
    /\ last.requests[1].json = PyDict(<< <<"age", PyInt(30)>> >>)
    /\ last.http = HttpResponse(200, JsonBody(PyDict(<< <<"status", PyStr("ok")>> >>)))
    /\ last.ret = json_dumps(PyDict(<< <<"status", PyStr("ok")>> >>), PyInt(2), FALSE)

----------------------------------------------------------------------------
(* Properties of get_research_summary. *)

\* The keys a store holds, as a set.
KeysHeld(s) == {k \in QueryKeys : dict_has(s.data, k)}

\* The summary text for one or two keys, written out.
SummaryText(keys) ==
    ChartMark \o " Research Data Summary\n" \o
    (IF Len(keys) = 1
     THEN "Total datasets: 1\nAvailable keys: " \o keys[1] \o "\n"
     ELSE "Total datasets: 2\nAvailable keys: " \o keys[1] \o ", " \o keys[2] \o "\n")

\* C21: get_research_summary returns the no-data message exactly when the
\* tool's store holds no key; otherwise it reports as "Total datasets" the
\* number of distinct keys held, a key written twice counted once, and
\* lists the keys in the order get_all_keys gives them.
C21_Summary ==
    last.op = "get_research_summary" =>
        LET s == stores[tool.data_store]
        IN  /\ (last.ret = PyStr(ChartMark \o " No research data currently stored"))
                  <=> (KeysHeld(s) = {})
            /\ KeysHeld(s) # {} =>
                  /\ Len(dict_keys(s.data)) = Cardinality(KeysHeld(s))
                  /\ dict_keys(s.data) = [i \in 1..Len(s.data) |->
                                              get_all_keys(s).items[i].s]
                  /\ last.ret = PyStr(SummaryText(dict_keys(s.data)))

\* The summary was asked for after the key inserted first was written
\* again: it reports 2 datasets and lists that key first.
C21_Witness ==
    /\ last.op = "get_research_summary"
    /\ StoredAt(TheStore, "technical_analysis") > StoredAt(TheStore, "market_research")
    /\ StoredAt(TheStore, "market_research") >= 0
    /\ last.ret = PyStr(ChartMark \o " Research Data Summary\n"
                        \o "Total datasets: 2\n"
                        \o "Available keys: technical_analysis, market_research\n")

----------------------------------------------------------------------------
(* Properties of retrieve_research_data. *)

\* C22: retrieve_research_data(k) returns the no-data message only for a
\* key the store does not hold; for a key it holds, whatever the value, an
\* empty mapping included, it returns the serialisation of the value.
C22_RetrieveStoredValue ==
    last.op = "retrieve_research_data" =>
        LET s == stores[tool.data_store]
        IN  /\ (last.ret = PyStr(CrossMark \o " No data found for key: " \o last.key))
                  => ~dict_has(s.data, last.key)
            /\ dict_has(s.data, last.key) =>
                  last.ret = json_dumps(dict_get(s.data, last.key, PyNone),
                                        PyInt(2), TRUE)

----------------------------------------------------------------------------
(* Properties of the two mappings of a store. *)

\* How many timestamps the store holds for key k.
TimestampsFor(s, k) == Cardinality({i \in 1..Len(s.timestamps) : s.timestamps[i][1] = k})

\* C23: in every reachable state, every store has the same keys in data and
\* in timestamps: each key with a value has exactly one timestamp, and no
\* timestamp belongs to a key without a value.
C23_SameKeys ==
    \A id \in DOMAIN stores :
        LET s == stores[id]
        IN  /\ {s.data[i][1] : i \in 1..Len(s.data)}
                  = {s.timestamps[i][1] : i \in 1..Len(s.timestamps)}
            /\ \A i \in 1..Len(s.data) :
                  /\ TimestampsFor(s, s.data[i][1]) = 1
                  /\ EntriesFor(s, s.data[i][1]) = 1

\* Two keys are held, one with an empty value, written at different times;
\* each has its one timestamp.
C23_Witness ==
    /\ Len(TheStore.data) = 2
    /\ Len(TheStore.timestamps) = 2
    /\ dict_get(TheStore.data, "market_research", PyNone) = PyDict(<<>>)
    /\ StoredAt(TheStore, "market_research") = 2
    /\ StoredAt(TheStore, "technical_analysis") = 0

----------------------------------------------------------------------------
(* Frame of the operations on a store. *)

ReadOps == {"retrieve", "get_all_keys", "retrieve_research_data", "get_research_summary"}

WriteOps == {"store", "store_research_data"}

\* What a store holds for key k: whether it holds it, the value, the time.
EntryOf(s, k) ==
    <<dict_has(s.data, k), dict_get(s.data, k, PyNone),
      dict_has(s.timestamps, k), dict_get(s.timestamps, k, -1)>>

\* C24: a step that ends with retrieve, get_all_keys, retrieve_research_data
\* or get_research_summary as the call just made, whether the call found
\* the key, reported it missing or reported a failure, leaves every store as
\* it was; a step that changes a store is a store or store_research_data
\* call, and it changes, in the store it works on, the entry of its key only.
C24_ReadOnly ==
    [][/\ last'.op \in ReadOps => stores' = stores
       /\ stores' # stores =>
             /\ last'.op \in WriteOps
             /\ DOMAIN stores' = DOMAIN stores
             /\ \A id \in DOMAIN stores :
                   /\ \A k \in QueryKeys \ {last'.key} :
                         EntryOf(stores'[id], k) = EntryOf(stores[id], k)
                   /\ id # (IF last'.op = "store" THEN WorkflowStore
                            ELSE tool.data_store) => stores'[id] = stores[id]]_vars

\* retrieve_research_data has reported a failure for a key whose value
\* json.dumps refuses, and the store still holds that value and the other key.
C24_Witness ==
    /\ last.op = "retrieve_research_data"
    /\ last.ret = PyStr(CrossMark \o " Failed to retrieve data: TypeError")
    /\ dict_get(TheStore.data, last.key, PyNone) = StampedResearch
    /\ Len(TheStore.data) = 2
    /\ Len(TheStore.timestamps) = 2

----------------------------------------------------------------------------
(* Properties of demonstrate_data_sharing. *)

\* demonstrate_data_sharing has returned, the store holds its two keys in
\* the order it stored them, market_data is the serialisation of the market
\* research sample and the summary reports two datasets.
DemoPostcondition ==
    /\ call.kind = "demo"
    /\ call.pc = "done"
    /\ dict_keys(TheStore.data) = <<"market_research", "technical_analysis">>
    /\ dict_keys(TheStore.timestamps) = <<"market_research", "technical_analysis">>
    /\ call.market_data = json_dumps(MarketResearchSample, PyInt(2), TRUE)
    /\ call.summary.kind = "str"
    /\ str_contains("Total datasets: 2\n", call.summary.s)

\* C25: demonstrate_data_sharing, called on a new workflow, comes to its end
\* without an exception leaving it, and from then on the shared store holds
\* exactly "market_research" and "technical_analysis", in that order, the
\* retrieval has returned the serialisation of the market research sample
\* and the summary reports 2 datasets.
C25_DataSharingDemo ==
    /\ [](call.kind = "demo" /\ call.pc # "raised")
    /\ <>[]DemoPostcondition

\* The call has returned, with time having passed between its two writes.
C25_Witness ==
    /\ call.kind = "demo"
    /\ call.pc = "done"
    /\ StoredAt(TheStore, "technical_analysis") > StoredAt(TheStore, "market_research")
    /\ dict_get(TheStore.data, "technical_analysis", PyNone) = TechnicalAnalysisSample
    /\ call.market_data = json_dumps(MarketResearchSample, PyInt(2), TRUE)
    /\ call.summary = PyStr(ChartMark \o " Research Data Summary\n"
                            \o "Total datasets: 2\n"
                            \o "Available keys: market_research, technical_analysis\n")

====
